---- MODULE Spec2Model ----
(***************************************************************************)
(* Model of network/nodes.py: NodeDownloader, the concurrent node crawler. *)
(*                                                                         *)
(* The shared fields of NodeDownloader are the variables visited_hosts,    *)
(* remaining_api_clients, strong_api_clients, public_key_to_node_info_map, *)
(* busy_thread_count and lock.  Every crawler thread is a worker with a    *)
(* program counter and the locals of _discover_thread.  A step of a worker *)
(* is one read or write of a shared field that another thread can observe: *)
(* the two operands of the loop test at line 59 and the test at line 60    *)
(* are read without the lock, so they are separate steps, and inside       *)
(* _pop_next_api_client the pop(0) of the queue and the increment of the   *)
(* busy count are separate steps too.                                      *)
(*                                                                         *)
(* The network the crawler talks to (the catalog, what every host answers) *)
(* is fixed when the run starts and is held in the variable net.           *)
(***************************************************************************)
EXTENDS Integers, Sequences, FiniteSets, TLC

\* Largest thread_count explored (the --thread-count argument).
MaxWorkers == 2

Hosts == {"h1", "h2", "h3"}
Keys == {"k1", "k2", "k3"}

\* from_node_info_dict may yield no client for a peer descriptor (line 146).
NoClient == "none"

Workers == 1..MaxWorkers

(***************************************************************************)
(* What a host answers.  "info": get_node_info raises a request exception; *)
(* "malformed": the node info lacks the identity fields read at lines      *)
(* 80-92, which raises a KeyError (not one of the exceptions of line 106);  *)
(* "peers", "height", "final": that fetch raises a request exception.      *)
(***************************************************************************)
Behaviours == {"ok", "info", "malformed", "peers", "height", "final"}

VARIABLES
    net,                          \* the catalog and the hosts' answers
    main,                         \* position of discover
    started,                      \* number of threads started (line 51)
    visited_hosts,
    remaining_api_clients,
    strong_api_clients,
    public_key_to_node_info_map,
    busy_thread_count,
    lock,                         \* 0 when free, else the worker holding it
    pc,                           \* position of every worker
    api_client,                   \* locals of _discover_thread
    is_reachable,
    main_public_key,
    json_node,
    json_peers,
    pop_log,                      \* history: the hosts returned by _pop_next_api_client
    pop_entry,                    \* history: the shared state at the entry of the running
                                  \* call of _pop_next_api_client
    enq_log,                      \* history: the hosts put into the queue, in that order
    hard_failed,                  \* history: the hosts whose probe ended with is_reachable False
    merge_log                     \* history: the <<key, host>> of every call of _update

vars == <<net, main, started, visited_hosts, remaining_api_clients, strong_api_clients,
          public_key_to_node_info_map, busy_thread_count, lock, pc, api_client,
          is_reachable, main_public_key, json_node, json_peers, pop_log, pop_entry,
          enq_log, hard_failed, merge_log>>

history == <<pop_log, pop_entry, enq_log, hard_failed, merge_log>>

\* no call of _pop_next_api_client is running
NoEntry == [queue |-> <<>>, visited |-> {}, busy |-> 0]

shared == <<visited_hosts, remaining_api_clients, public_key_to_node_info_map,
            busy_thread_count>>

locals == <<api_client, is_reachable, main_public_key, json_node, json_peers>>

NoNode == [host |-> NoClient, extraData |-> [balance |-> 0, height |-> 0, finalizedHeight |-> 0]]

(***************************************************************************)
(* The probe of one host, lines 73-109, as the value it leaves in the      *)
(* locals.  h is api_client.node_host, pool is strong_api_clients and s is *)
(* the element random.choice picked (any value when the pool is empty).    *)
(* status "crash": an exception that line 106 does not catch leaves the    *)
(* thread; "caught": the except clause ran; "ok": the try block completed. *)
(***************************************************************************)
ExtraData(b, h, f) == [balance |-> b, height |-> h, finalizedHeight |-> f]

Node(host, b, h, f) == [host |-> host, extraData |-> ExtraData(b, h, f)]

Outcome(status, reachable, key, node, peers) ==
    [status |-> status, reachable |-> reachable, key |-> key, node |-> node, peers |-> peers]

\* line 100: main_account_info.balance if main_account_info else 0
BalanceOf(n, h) == IF h \in n.noAccount THEN 0 ELSE n.balance[h]

\* Probe without line 109: the except clause leaves json_peers as fetched
ProbeKeepsPeers(n, h, pool, s) ==
    LET zero == Node(h, 0, 0, 0)
        bal  == Node(h, BalanceOf(n, h), 0, 0)
        hgt  == Node(h, BalanceOf(n, h), n.height[h], 0)
        full == Node(h, BalanceOf(n, h), n.height[h], n.finalized[h])
    IN  IF n.beh[h] = "info" THEN Outcome("caught", FALSE, NoClient, NoNode, <<>>)
        ELSE IF pool = <<>> THEN Outcome("crash", FALSE, NoClient, zero, <<>>)
        ELSE IF n.beh[h] = "malformed" THEN Outcome("crash", FALSE, NoClient, zero, <<>>)
        ELSE IF n.isNem /\ s \in n.down THEN Outcome("caught", FALSE, NoClient, zero, <<>>)
        ELSE IF n.beh[h] = "peers" THEN Outcome("caught", TRUE, n.key[h], zero, <<>>)
        ELSE IF s \in n.down THEN Outcome("caught", TRUE, n.key[h], zero, n.peers[h])
        ELSE IF n.beh[h] = "height" THEN Outcome("caught", TRUE, n.key[h], bal, n.peers[h])
        ELSE IF n.isNem THEN Outcome("ok", TRUE, n.key[h], hgt, n.peers[h])
        ELSE IF n.beh[h] = "final" THEN Outcome("caught", TRUE, n.key[h], hgt, n.peers[h])
        ELSE Outcome("ok", TRUE, n.key[h], full, n.peers[h])

Probe(n, h, pool, s) ==
    LET zero == Node(h, 0, 0, 0)
        bal  == Node(h, BalanceOf(n, h), 0, 0)
        hgt  == Node(h, BalanceOf(n, h), n.height[h], 0)
        full == Node(h, BalanceOf(n, h), n.height[h], n.finalized[h])
    IN  \* line 75: get_node_info
        IF n.beh[h] = "info" THEN Outcome("caught", FALSE, NoClient, NoNode, <<>>)
        \* line 78: random.choice of an empty sequence raises IndexError
        ELSE IF pool = <<>> THEN Outcome("crash", FALSE, NoClient, zero, <<>>)
        \* lines 80-92: the identity fields of the node info
        ELSE IF n.beh[h] = "malformed" THEN Outcome("crash", FALSE, NoClient, zero, <<>>)
        \* line 82: the forwarded account lookup of a NEM node
        ELSE IF n.isNem /\ s \in n.down THEN Outcome("caught", FALSE, NoClient, zero, <<>>)
        \* line 94: is_reachable = True; line 96: get_peers
        ELSE IF n.beh[h] = "peers" THEN Outcome("caught", TRUE, n.key[h], zero, <<>>)
        \* line 98: get_account_info through the strong client
        ELSE IF s \in n.down THEN Outcome("caught", TRUE, n.key[h], zero, <<>>)
        \* line 101: get_chain_height, after the balance is stored
        ELSE IF n.beh[h] = "height" THEN Outcome("caught", TRUE, n.key[h], bal, <<>>)
        \* lines 103-104: get_finalization_info, not for NEM
        ELSE IF n.isNem THEN Outcome("ok", TRUE, n.key[h], hgt, n.peers[h])
        ELSE IF n.beh[h] = "final" THEN Outcome("caught", TRUE, n.key[h], hgt, <<>>)
        ELSE Outcome("ok", TRUE, n.key[h], full, n.peers[h])

(***************************************************************************)
(* _update, lines 138-148: the map entry is overwritten, then every peer   *)
(* that has a client, is not visited and is not queued is appended.        *)
(***************************************************************************)
\* AppendPeers without the test of line 147 against the queue
RECURSIVE AppendPeersNoQueueCheck(_, _, _)
AppendPeersNoQueueCheck(queue, visited, peers) ==
    IF peers = <<>> THEN queue
    ELSE LET p == Head(peers)
             keep == p # NoClient /\ p \notin visited
         IN AppendPeersNoQueueCheck(IF keep THEN Append(queue, p) ELSE queue, visited,
                                    Tail(peers))

\* AppendPeers that inserts at the head of the queue
RECURSIVE AppendPeersFront(_, _, _)
AppendPeersFront(queue, visited, peers) ==
    IF peers = <<>> THEN queue
    ELSE LET p == Head(peers)
             keep == /\ p # NoClient
                     /\ p \notin visited
                     /\ ~ \E i \in 1..Len(queue) : queue[i] = p
         IN AppendPeersFront(IF keep THEN <<p>> \o queue ELSE queue, visited, Tail(peers))

\* lines 145-148: the turns of the loop over the peers that reach the append
\* of line 148, in the order of the loop; seen is what the queue holds by then
RECURSIVE Enqueued(_, _, _)
Enqueued(seen, visited, peers) ==
    IF peers = <<>> THEN <<>>
    ELSE LET p == Head(peers)
             keep == /\ p # NoClient
                     /\ p \notin visited
                     /\ ~ \E i \in 1..Len(seen) : seen[i] = p
         IN IF keep THEN <<p>> \o Enqueued(Append(seen, p), visited, Tail(peers))
            ELSE Enqueued(seen, visited, Tail(peers))

RECURSIVE AppendPeers(_, _, _)
AppendPeers(queue, visited, peers) ==
    IF peers = <<>> THEN queue
    ELSE LET p == Head(peers)
             keep == /\ p # NoClient
                     /\ p \notin visited
                     /\ ~ \E i \in 1..Len(queue) : queue[i] = p
         IN AppendPeers(IF keep THEN Append(queue, p) ELSE queue, visited, Tail(peers))

\* MapPut that keeps the entry a key already has
MapPutKeep(map, key, node) ==
    [k \in DOMAIN map \cup {key} |-> IF k \in DOMAIN map THEN map[k] ELSE node]

MapPut(map, key, node) ==
    [k \in DOMAIN map \cup {key} |-> IF k = key THEN node ELSE map[k]]

(***************************************************************************)
(* discover, lines 38-56.                                                  *)
(***************************************************************************)
\* Seed that marks the hosts of the catalog visited
SeedMarksVisited ==
    /\ main = "seed"
    /\ remaining_api_clients' = net.seeds
    /\ strong_api_clients' = net.strong
    /\ enq_log' = net.seeds
    /\ visited_hosts' = {net.seeds[i] : i \in 1..Len(net.seeds)}
    /\ main' = "start"
    /\ UNCHANGED <<net, started, public_key_to_node_info_map,
                   busy_thread_count, lock, pc, locals, pop_log, pop_entry, hard_failed,
                   merge_log>>

\* lines 40-45: one client per catalog node; nothing is marked visited
Seed ==
    /\ main = "seed"
    /\ remaining_api_clients' = net.seeds
    /\ strong_api_clients' = net.strong
    /\ enq_log' = net.seeds
    /\ main' = "start"
    /\ UNCHANGED <<net, started, visited_hosts, public_key_to_node_info_map,
                   busy_thread_count, lock, pc, locals, pop_log, pop_entry, hard_failed,
                   merge_log>>

\* lines 50-51: thread.start(), one thread after the other
StartThread ==
    /\ main = "start"
    /\ started < net.threadCount
    /\ started' = started + 1
    /\ pc' = [pc EXCEPT ![started + 1] = "loop_queue"]
    /\ UNCHANGED <<net, main, shared, strong_api_clients, lock, locals, history>>

\* a thread is over when its loop ended or an exception left it
Exited(w) == pc[w] \in {"done", "crashed"}

\* lines 53-56: every thread is joined, then discover returns
Join ==
    /\ main = "start"
    /\ started = net.threadCount
    /\ \A w \in 1..net.threadCount : Exited(w)
    /\ main' = "returned"
    /\ UNCHANGED <<net, started, shared, strong_api_clients, lock, pc, locals, history>>

(***************************************************************************)
(* _discover_thread, lines 58-118.                                         *)
(***************************************************************************)
Goto(w, l) == pc' = [pc EXCEPT ![w] = l]

\* line 59, first operand: self.remaining_api_clients
LoopQueue(w) ==
    /\ pc[w] = "loop_queue"
    /\ Goto(w, IF remaining_api_clients # <<>> THEN "check_queue" ELSE "loop_busy")
    /\ UNCHANGED <<net, main, started, shared, strong_api_clients, lock, locals, history>>

\* line 59, second operand: self.busy_thread_count; the loop ends when it is 0
LoopBusy(w) ==
    /\ pc[w] = "loop_busy"
    /\ Goto(w, IF busy_thread_count # 0 THEN "check_queue" ELSE "done")
    /\ UNCHANGED <<net, main, started, shared, strong_api_clients, lock, locals, history>>

\* line 60: if not self.remaining_api_clients
CheckQueue(w) ==
    /\ pc[w] = "check_queue"
    /\ Goto(w, IF remaining_api_clients = <<>> THEN "sleep" ELSE "lock_pop")
    /\ UNCHANGED <<net, main, started, shared, strong_api_clients, lock, locals, history>>

\* lines 61-62: time.sleep(2); continue
Sleep(w) ==
    /\ pc[w] = "sleep"
    /\ Goto(w, "loop_queue")
    /\ UNCHANGED <<net, main, started, shared, strong_api_clients, lock, locals, history>>

\* line 64: with self.lock
LockPop(w) ==
    /\ pc[w] = "lock_pop"
    /\ lock = 0
    /\ lock' = w
    /\ Goto(w, "pop")
    /\ pop_entry' = [queue |-> remaining_api_clients, visited |-> visited_hosts,
                     busy |-> busy_thread_count]
    /\ UNCHANGED <<net, main, started, shared, strong_api_clients, locals, pop_log,
                   enq_log, hard_failed, merge_log>>

\* PopHead without the test of line 125 against visited_hosts
PopHeadUnchecked(w) ==
    /\ pc[w] = "pop"
    /\ remaining_api_clients # <<>>
    /\ remaining_api_clients' = Tail(remaining_api_clients)
    /\ api_client' = [api_client EXCEPT ![w] = Head(remaining_api_clients)]
    /\ Goto(w, "pop_mark")
    /\ UNCHANGED <<net, main, started, visited_hosts, public_key_to_node_info_map,
                   busy_thread_count, strong_api_clients, lock, is_reachable,
                   main_public_key, json_node, json_peers, history>>

\* lines 123-128: one turn of the loop of _pop_next_api_client
PopHead(w) ==
    /\ pc[w] = "pop"
    /\ remaining_api_clients # <<>>
    /\ remaining_api_clients' = Tail(remaining_api_clients)
    /\ IF Head(remaining_api_clients) \notin visited_hosts
       THEN /\ api_client' = [api_client EXCEPT ![w] = Head(remaining_api_clients)]
            /\ Goto(w, "pop_mark")
       ELSE UNCHANGED <<api_client, pc>>
    /\ UNCHANGED <<net, main, started, visited_hosts, public_key_to_node_info_map,
                   busy_thread_count, strong_api_clients, lock, is_reachable,
                   main_public_key, json_node, json_peers, history>>

\* lines 130-131 and 66-67: the queue ran empty, None is returned, and the
\* thread sleeps inside the with block
PopNone(w) ==
    /\ pc[w] = "pop"
    /\ remaining_api_clients = <<>>
    /\ Goto(w, "sleep_locked")
    /\ UNCHANGED <<net, main, started, shared, strong_api_clients, lock, locals, history>>

\* line 68: continue leaves the with block and releases the lock
SleepLocked(w) ==
    /\ pc[w] = "sleep_locked"
    /\ lock' = 0
    /\ Goto(w, "loop_queue")
    /\ pop_entry' = NoEntry
    /\ UNCHANGED <<net, main, started, shared, strong_api_clients, locals, pop_log,
                   enq_log, hard_failed, merge_log>>

\* PopMark without line 133: the host returned is not marked visited
PopMarkNoVisit(w) ==
    /\ pc[w] = "pop_mark"
    /\ busy_thread_count' = busy_thread_count + 1
    /\ pop_log' = Append(pop_log, api_client[w])
    /\ pop_entry' = NoEntry
    /\ lock' = 0
    /\ Goto(w, "probe")
    /\ UNCHANGED <<net, main, started, visited_hosts, remaining_api_clients,
                   public_key_to_node_info_map, strong_api_clients, locals, enq_log,
                   hard_failed, merge_log>>

\* PopMark without the increment of line 134
PopMarkNoCount(w) ==
    /\ pc[w] = "pop_mark"
    /\ visited_hosts' = visited_hosts \cup {api_client[w]}
    /\ pop_log' = Append(pop_log, api_client[w])
    /\ pop_entry' = NoEntry
    /\ lock' = 0
    /\ Goto(w, "probe")
    /\ UNCHANGED <<net, main, started, remaining_api_clients, public_key_to_node_info_map,
                   busy_thread_count, strong_api_clients, locals, enq_log,
                   hard_failed, merge_log>>

\* lines 133-135, then the end of the with block at line 68
PopMark(w) ==
    /\ pc[w] = "pop_mark"
    /\ visited_hosts' = visited_hosts \cup {api_client[w]}
    /\ busy_thread_count' = busy_thread_count + 1
    /\ pop_log' = Append(pop_log, api_client[w])
    /\ pop_entry' = NoEntry
    /\ lock' = 0
    /\ Goto(w, "probe")
    /\ UNCHANGED <<net, main, started, remaining_api_clients, public_key_to_node_info_map,
                   strong_api_clients, locals, enq_log,
                   hard_failed, merge_log>>

\* lines 73-109, with no lock held
ProbeHost(w) ==
    /\ pc[w] = "probe"
    /\ \E s \in IF strong_api_clients = <<>> THEN {NoClient}
                ELSE {strong_api_clients[i] : i \in 1..Len(strong_api_clients)} :
         LET r == Probe(net, api_client[w], strong_api_clients, s)
         IN /\ is_reachable' = [is_reachable EXCEPT ![w] = r.reachable]
            /\ main_public_key' = [main_public_key EXCEPT ![w] = r.key]
            /\ json_node' = [json_node EXCEPT ![w] = r.node]
            /\ json_peers' = [json_peers EXCEPT ![w] = r.peers]
            /\ hard_failed' = IF r.reachable THEN hard_failed
                               ELSE hard_failed \cup {api_client[w]}
            /\ Goto(w, IF r.status = "crash" THEN "crashed" ELSE "lock_merge")
    /\ UNCHANGED <<net, main, started, shared, strong_api_clients, lock, api_client,
                   pop_log, pop_entry, enq_log, merge_log>>

\* LockMerge that does not wait for the lock to be free
LockMergeNoWait(w) ==
    /\ pc[w] = "lock_merge"
    /\ lock' = w
    /\ Goto(w, "merge")
    /\ UNCHANGED <<net, main, started, shared, strong_api_clients, locals, history>>

\* line 111: with self.lock
LockMerge(w) ==
    /\ pc[w] = "lock_merge"
    /\ lock = 0
    /\ lock' = w
    /\ Goto(w, "merge")
    /\ UNCHANGED <<net, main, started, shared, strong_api_clients, locals, history>>

\* Merge without the test of line 112: _update is called for every host
MergeAlways(w) ==
    /\ pc[w] = "merge"
    /\ public_key_to_node_info_map' =
           MapPut(public_key_to_node_info_map, main_public_key[w], json_node[w])
    /\ remaining_api_clients' =
           AppendPeers(remaining_api_clients, visited_hosts, json_peers[w])
    /\ merge_log' = Append(merge_log, <<main_public_key[w], api_client[w]>>)
    /\ enq_log' = enq_log \o Enqueued(remaining_api_clients, visited_hosts,
                                      json_peers[w])
    /\ Goto(w, "decrement")
    /\ UNCHANGED <<net, main, started, visited_hosts, busy_thread_count,
                   strong_api_clients, lock, locals, pop_log, pop_entry,
                   hard_failed>>

\* Merge with line 112 reading "if is_reachable and json_peers"
MergeNeedsPeers(w) ==
    /\ pc[w] = "merge"
    /\ IF is_reachable[w] /\ json_peers[w] # <<>>
       THEN /\ public_key_to_node_info_map' =
                   MapPut(public_key_to_node_info_map, main_public_key[w], json_node[w])
            /\ remaining_api_clients' =
                   AppendPeers(remaining_api_clients, visited_hosts, json_peers[w])
            /\ merge_log' = Append(merge_log, <<main_public_key[w], api_client[w]>>)
            /\ enq_log' = enq_log \o Enqueued(remaining_api_clients, visited_hosts,
                                              json_peers[w])
       ELSE UNCHANGED <<public_key_to_node_info_map, remaining_api_clients, merge_log,
                        enq_log>>
    /\ Goto(w, "decrement")
    /\ UNCHANGED <<net, main, started, visited_hosts, busy_thread_count,
                   strong_api_clients, lock, locals, pop_log, pop_entry,
                   hard_failed>>

\* lines 112-113: if is_reachable: self._update(...)
Merge(w) ==
    /\ pc[w] = "merge"
    /\ IF is_reachable[w]
       THEN /\ public_key_to_node_info_map' =
                   MapPut(public_key_to_node_info_map, main_public_key[w], json_node[w])
            /\ remaining_api_clients' =
                   AppendPeers(remaining_api_clients, visited_hosts, json_peers[w])
            /\ merge_log' = Append(merge_log, <<main_public_key[w], api_client[w]>>)
            /\ enq_log' = enq_log \o Enqueued(remaining_api_clients, visited_hosts,
                                              json_peers[w])
       ELSE UNCHANGED <<public_key_to_node_info_map, remaining_api_clients, merge_log,
                        enq_log>>
    /\ Goto(w, "decrement")
    /\ UNCHANGED <<net, main, started, visited_hosts, busy_thread_count,
                   strong_api_clients, lock, locals, pop_log, pop_entry,
                   hard_failed>>

\* Decrement with line 115 inside the "if is_reachable" of line 112
DecrementOnlyReachable(w) ==
    /\ pc[w] = "decrement"
    /\ busy_thread_count' = IF is_reachable[w] THEN busy_thread_count - 1
                             ELSE busy_thread_count
    /\ lock' = 0
    /\ Goto(w, "loop_queue")
    /\ api_client' = [api_client EXCEPT ![w] = NoClient]
    /\ is_reachable' = [is_reachable EXCEPT ![w] = FALSE]
    /\ main_public_key' = [main_public_key EXCEPT ![w] = NoClient]
    /\ json_node' = [json_node EXCEPT ![w] = NoNode]
    /\ json_peers' = [json_peers EXCEPT ![w] = <<>>]
    /\ UNCHANGED <<net, main, started, visited_hosts, remaining_api_clients,
                   public_key_to_node_info_map, strong_api_clients, history>>

\* line 115, then the end of the with block; the locals are dead from here on
Decrement(w) ==
    /\ pc[w] = "decrement"
    /\ busy_thread_count' = busy_thread_count - 1
    /\ lock' = 0
    /\ Goto(w, "loop_queue")
    /\ api_client' = [api_client EXCEPT ![w] = NoClient]
    /\ is_reachable' = [is_reachable EXCEPT ![w] = FALSE]
    /\ main_public_key' = [main_public_key EXCEPT ![w] = NoClient]
    /\ json_node' = [json_node EXCEPT ![w] = NoNode]
    /\ json_peers' = [json_peers EXCEPT ![w] = <<>>]
    /\ UNCHANGED <<net, main, started, visited_hosts, remaining_api_clients,
                   public_key_to_node_info_map, strong_api_clients, history>>

WorkerStep(w) ==
    \/ LoopQueue(w) \/ LoopBusy(w) \/ CheckQueue(w) \/ Sleep(w)
    \/ LockPop(w) \/ PopHead(w) \/ PopNone(w) \/ SleepLocked(w) \/ PopMark(w)
    \/ ProbeHost(w) \/ LockMerge(w) \/ Merge(w) \/ Decrement(w)

(***************************************************************************)
(* The networks explored.  A topology is the catalog's node list and the   *)
(* peer list every host reports.                                           *)
(***************************************************************************)
Topologies ==
    { \* two seeds that name each other and a third host
      [seeds |-> <<"h1", "h2">>,
       peers |-> [h \in Hosts |-> CASE h = "h1" -> <<"h2", "h3">>
                                    [] h = "h2" -> <<"h1", "h3">>
                                    [] OTHER -> <<"h1">>]],
      \* one seed; a peer list with a repeated host and a peer without a client
      [seeds |-> <<"h1">>,
       peers |-> [h \in Hosts |-> CASE h = "h1" -> <<"h3", NoClient, "h2", "h3">>
                                    [] h = "h2" -> <<"h1">>
                                    [] OTHER -> <<"h2">>]],
      \* the catalog lists a host twice
      [seeds |-> <<"h1", "h1", "h2">>,
       peers |-> [h \in Hosts |-> CASE h = "h1" -> <<"h3", "h3">>
                                    [] h = "h2" -> <<"h3">>
                                    [] OTHER -> <<"h2">>]],
      \* the catalog lists one host twice and nothing else; the host names itself
      [seeds |-> <<"h2", "h2">>,
       peers |-> [h \in Hosts |-> IF h = "h2" THEN <<"h2">> ELSE <<>>]],
      \* three seeds that report no peers
      [seeds |-> <<"h1", "h2", "h3">>,
       peers |-> [h \in Hosts |-> <<>>]],
      \* an empty catalog
      [seeds |-> <<>>,
       peers |-> [h \in Hosts |-> <<>>]] }

\* the nodes of the catalog whose role is not 'seed-only' (line 44)
StrongOf(seeds, roles) ==
    CASE roles = "all" -> seeds
      [] roles = "first" -> IF seeds = <<>> THEN <<>> ELSE <<Head(seeds)>>
      [] OTHER -> <<>>

KeyMaps ==
    { [h \in Hosts |-> CASE h = "h1" -> "k1" [] h = "h2" -> "k2" [] OTHER -> "k3"],
      [h \in Hosts |-> CASE h = "h1" -> "k1" [] h = "h2" -> "k1" [] OTHER -> "k3"] }

AllOk == [h \in Hosts |-> "ok"]

\* at most one kind of failure in a network, on one host or on two
Faulty(beh) ==
    \E b \in Behaviours \ {"ok"} : \E hs \in SUBSET Hosts :
        /\ Cardinality(hs) \in {1, 2}
        /\ beh = [h \in Hosts |-> IF h \in hs THEN b ELSE "ok"]

Plain(c) ==
    /\ c.beh = AllOk
    /\ c.key \in KeyMaps /\ \A h1, h2 \in Hosts : c.key[h1] = c.key[h2] => h1 = h2
    /\ c.roles = "all" /\ c.down = {} /\ c.noAccount = {}

\* a network differs from the plain one in one respect
OneDeviation(c) ==
    \/ Plain(c)
    \/ \E d \in {"beh", "key", "roles", "down", "noAccount"} :
          /\ d = "beh" \/ c.beh = AllOk
          /\ d # "beh" \/ Faulty(c.beh)
          /\ d = "key" \/ \A h1, h2 \in Hosts : c.key[h1] = c.key[h2] => h1 = h2
          /\ d = "roles" \/ c.roles = "all"
          /\ d = "down" \/ c.down = {}
          /\ d = "noAccount" \/ c.noAccount = {}

Choices ==
    { c \in [threadCount : Workers, topology : Topologies, isNem : BOOLEAN,
             beh : [Hosts -> Behaviours], key : KeyMaps,
             roles : {"all", "first", "none"},
             down : {{}, {"h1"}, Hosts}, noAccount : {{}, {"h1"}}] : OneDeviation(c) }

Network(c) ==
    [threadCount |-> c.threadCount,
     seeds |-> c.topology.seeds,
     strong |-> StrongOf(c.topology.seeds, c.roles),
     peers |-> c.topology.peers,
     isNem |-> c.isNem,
     beh |-> c.beh,
     key |-> c.key,
     down |-> c.down,
     noAccount |-> c.noAccount,
     balance |-> [h \in Hosts |-> 5],
     height |-> [h \in Hosts |-> 9],
     finalized |-> [h \in Hosts |-> 8]]

Networks == { Network(c) : c \in Choices }

\* the fields as __init__ leaves them, lines 20-32, and no thread started
Init ==
    /\ net \in Networks
    /\ main = "seed"
    /\ started = 0
    /\ visited_hosts = {}
    /\ remaining_api_clients = <<>>
    /\ strong_api_clients = <<>>
    /\ public_key_to_node_info_map = <<>>
    /\ busy_thread_count = 0
    /\ lock = 0
    /\ pc = [w \in Workers |-> "unstarted"]
    /\ api_client = [w \in Workers |-> NoClient]
    /\ is_reachable = [w \in Workers |-> FALSE]
    /\ main_public_key = [w \in Workers |-> NoClient]
    /\ json_node = [w \in Workers |-> NoNode]
    /\ json_peers = [w \in Workers |-> <<>>]
    /\ pop_log = <<>>
    /\ pop_entry = NoEntry
    /\ enq_log = <<>>
    /\ hard_failed = {}
    /\ merge_log = <<>>

Next ==
    \/ Seed
    \/ StartThread
    \/ Join
    \/ \E w \in Workers : WorkerStep(w)

Spec == Init /\ [][Next]_vars

\* every started thread keeps running and discover keeps running
FairSpec ==
    /\ Spec
    /\ WF_vars(Seed \/ StartThread \/ Join)
    /\ \A w \in Workers : WF_vars(WorkerStep(w))

(***************************************************************************)
(* Properties.                                                             *)
(***************************************************************************)
SeqToSet(q) == {q[i] : i \in 1..Len(q)}

Count(q, x) == Cardinality({i \in 1..Len(q) : q[i] = x})

\* C1: every host is returned by _pop_next_api_client, and so probed, at most
\* once in a run, however often the catalog and the peer lists name it and
\* however its probe ended.
C1_Dedup == \A h \in Hosts : Count(pop_log, h) <= 1

\* the catalog names h1 twice, h2 failed hard, h3 is named by two peer lists,
\* and all three hosts were handed out
C1_Witness ==
    /\ main = "returned"
    /\ Count(net.seeds, "h1") = 2
    /\ "h2" \in hard_failed
    /\ SeqToSet(pop_log) = Hosts

\* the answer of random.choice does not matter: the strong clients all answer
\* the account lookups or all fail them
Deterministic(n) == SeqToSet(n.strong) \subseteq n.down \/ SeqToSet(n.strong) \cap n.down = {}

AnyStrong(n) == IF n.strong = <<>> THEN NoClient ELSE Head(n.strong)

ProbeOf(n, h) == Probe(n, h, n.strong, AnyStrong(n))

\* the hosts named by the peer lists of the hosts of S whose probe completed
PeersOfCompleted(n, S) ==
    UNION {SeqToSet(ProbeOf(n, h).peers) \ {NoClient} : h \in {x \in S : ProbeOf(n, x).status = "ok"}}

RECURSIVE Closure(_, _)
Closure(n, S) ==
    IF PeersOfCompleted(n, S) \subseteq S THEN S ELSE Closure(n, S \cup PeersOfCompleted(n, S))

\* the hosts reachable from the seeds through the peer lists of completed probes
Reach(n) == Closure(n, SeqToSet(n.seeds))

\* C2: when discover returns, visited_hosts is exactly the set of hosts
\* reachable from the seeds through the peer lists of the hosts whose probe
\* completed without a failure, the map holds the key of every visited host
\* whose node info and identity were obtained, and no host is left queued.
C2_Completeness ==
    (main = "returned" /\ Deterministic(net)) =>
        /\ visited_hosts = Reach(net)
        /\ \A h \in visited_hosts :
              h \notin hard_failed => net.key[h] \in DOMAIN public_key_to_node_info_map
        /\ remaining_api_clients = <<>>

\* C3: on a finite network whose probes all return, and with every thread
\* scheduled fairly, every thread ends and discover returns.
C3_Termination == <>(main = "returned")

\* every thread discover started is over, so the joins of lines 53-54 return
AllExited == started = net.threadCount /\ \A w \in 1..net.threadCount : Exited(w)

Quiescent == remaining_api_clients = <<>> /\ busy_thread_count = 0

\* C4: whenever all threads are over the queue is empty and the busy count is 0,
\* and once the queue is empty and the busy count is 0 every thread ends.
C4_ExitAtQuiescence == [](AllExited => Quiescent) /\ (Quiescent ~> AllExited)

\* C5: no failure of a probe step ends the thread: a thread that was handed a
\* host never dies in the probe, it goes on to the merge and the decrement.
C5_Containment == \A w \in Workers : pc[w] # "crashed"

\* C6: a host whose node info or identity could not be obtained never has an
\* entry in the map; its merge changes neither the map, the queue nor
\* visited_hosts and only decrements the busy count; and when the only seed
\* fails hard the map is empty when discover returns.
C6_HardFailure ==
    /\ [](\A k \in DOMAIN public_key_to_node_info_map :
             public_key_to_node_info_map[k].host \notin hard_failed)
    /\ []((main = "returned" /\ Len(net.seeds) = 1 /\ Head(net.seeds) \in hard_failed)
             => public_key_to_node_info_map = <<>>)
    /\ [][\A w \in Workers :
             (pc[w] = "merge" /\ pc'[w] = "decrement" /\ api_client[w] \in hard_failed)
                => UNCHANGED <<public_key_to_node_info_map, remaining_api_clients,
                               visited_hosts, busy_thread_count>>]_vars
    /\ [][\A w \in Workers :
             (pc[w] = "decrement" /\ pc'[w] = "loop_queue" /\ api_client[w] \in hard_failed)
                => /\ busy_thread_count' = busy_thread_count - 1
                   /\ UNCHANGED <<public_key_to_node_info_map, remaining_api_clients,
                                  visited_hosts>>]_vars

\* the only seed failed hard, its thread merged and ended, the map is empty
C6_Witness ==
    /\ main = "returned"
    /\ net.seeds = <<"h1">>
    /\ "h1" \in hard_failed
    /\ pc[1] = "done"
    /\ public_key_to_node_info_map = <<>>

\* C7: a host whose node info and identity were obtained and whose peer list
\* could not be fetched is stored in the map under its key with balance,
\* height and finalizedHeight 0, and its merge appends nothing to the queue.
C7_PartialRetention ==
    /\ [][\A w \in Workers :
             (/\ pc[w] = "merge" /\ pc'[w] = "decrement"
              /\ net.beh[api_client[w]] = "peers"
              /\ api_client[w] \notin hard_failed)
                => /\ net.key[api_client[w]] \in DOMAIN public_key_to_node_info_map'
                   /\ public_key_to_node_info_map'[net.key[api_client[w]]]
                         = Node(api_client[w], 0, 0, 0)
                   /\ remaining_api_clients' = remaining_api_clients]_vars
    /\ [](main = "returned" =>
             \A h \in visited_hosts :
                (net.beh[h] = "peers" /\ h \notin hard_failed)
                   => net.key[h] \in DOMAIN public_key_to_node_info_map)

\* h1 reports peers but its peer list could not be fetched: it is the only
\* host visited and the map holds its record with the zeros of line 76
C7_Witness ==
    /\ main = "returned"
    /\ net.beh["h1"] = "peers"
    /\ net.peers["h1"] # <<>>
    /\ visited_hosts = {"h1"}
    /\ DOMAIN public_key_to_node_info_map = {"k1"}
    /\ public_key_to_node_info_map["k1"] = Node("h1", 0, 0, 0)

InjectiveKeys(n) == \A h1, h2 \in Hosts : n.key[h1] = n.key[h2] => h1 = h2

\* the map a single thread leaves: with one thread the run is the sequence of
\* pop, probe and merge below, which ends when the queue is empty or when the
\* thread dies in a probe
RECURSIVE SingleThreadMap(_, _, _, _)
SingleThreadMap(n, queue, visited, map) ==
    IF queue = <<>> THEN map
    ELSE IF Head(queue) \in visited THEN SingleThreadMap(n, Tail(queue), visited, map)
    ELSE LET h == Head(queue)
             r == ProbeOf(n, h)
         IN IF r.status = "crash" THEN map
            ELSE IF r.reachable
            THEN SingleThreadMap(n, AppendPeers(Tail(queue), visited \cup {h}, r.peers),
                                 visited \cup {h}, MapPut(map, r.key, r.node))
            ELSE SingleThreadMap(n, Tail(queue), visited \cup {h}, map)

WritesOf(k) == {i \in 1..Len(merge_log) : merge_log[i][1] = k}

LastWriter(k) ==
    merge_log[CHOOSE i \in WritesOf(k) : \A j \in WritesOf(k) : j <= i][2]

\* C9: the map holds one entry per written key, and the entry of a key is
\* the record of the host whose _update ran last for that key: an earlier
\* record of another host is overwritten whole, not merged.
C9_LastWriterWins ==
    /\ DOMAIN public_key_to_node_info_map = {merge_log[i][1] : i \in 1..Len(merge_log)}
    /\ \A k \in DOMAIN public_key_to_node_info_map :
          \E s \in SeqToSet(net.strong) :
              public_key_to_node_info_map[k]
                  = Probe(net, LastWriter(k), net.strong, s).node

\* h1 and h2 resolve to the key k1, h1 merged first and h2 second, and the
\* entry of k1 is the record of h2
C9_Witness ==
    /\ main = "returned"
    /\ net.key["h1"] = "k1" /\ net.key["h2"] = "k1"
    /\ Len(merge_log) >= 2
    /\ merge_log[1] = <<"k1", "h1">>
    /\ merge_log[2] = <<"k1", "h2">>
    /\ public_key_to_node_info_map["k1"].host = "h2"

\* the other order: h2 merged first, and the entry of k1 is the record of h1
C9_WitnessOtherOrder ==
    /\ main = "returned"
    /\ net.key["h1"] = "k1" /\ net.key["h2"] = "k1"
    /\ Len(merge_log) >= 2
    /\ merge_log[1] = <<"k1", "h2">>
    /\ merge_log[2] = <<"k1", "h1">>
    /\ public_key_to_node_info_map["k1"].host = "h1"

\* C10: with an empty catalog discover aborts before any thread is started; it
\* neither starts a thread nor returns normally.
C10_SeedingFatal == net.seeds = <<>> => (started = 0 /\ main # "returned")

\* positions of a thread that was handed a host and has not finished its merge,
\* or that is inside _pop_next_api_client with a host taken off the queue
InFlight(w) == pc[w] \in {"pop_mark", "probe", "lock_merge", "merge", "decrement"}

\* C11: a thread ends its loop only in a state in which the queue is empty, the
\* busy count is 0 and no other thread holds a host between its pop and the
\* end of its merge.
C11_ExitOnlyWhenQuiescent ==
    [][\A w \in Workers :
          (pc[w] # "done" /\ pc'[w] = "done")
             => (Quiescent /\ \A v \in Workers \ {w} : ~InFlight(v))]_vars

\* after seeding the queue grows only in the _update of a thread that is
\* counted in busy_thread_count
GrowsOnlyInCountedMerge ==
    [][(main # "seed" /\ Len(remaining_api_clients') > Len(remaining_api_clients))
          => (busy_thread_count >= 1 /\ \E w \in Workers : pc[w] = "merge" /\ lock = w)]_vars

\* C12 as stated: the queue grows only in a merge of a counted thread, so once
\* the queue is empty and the busy count is 0 (after seeding), it stays so in
\* every later state.
C12_QuiescenceStable ==
    /\ GrowsOnlyInCountedMerge
    /\ [][(main # "seed" /\ Quiescent) => Quiescent']_vars

\* C12 amended: the same, for a quiescent state in which the lock is free (no
\* thread is between the pop(0) of line 124 and the increment of line 134).
C12_QuiescenceStableLockFree ==
    /\ GrowsOnlyInCountedMerge
    /\ [][(main # "seed" /\ Quiescent /\ (lock = 0 \/ pc[lock] # "pop_mark"))
             => (Quiescent' /\ (lock' = 0 \/ pc'[lock'] # "pop_mark"))]_vars

\* hosts were processed, the queue is empty, the count is 0 and the lock is
\* free, while a thread that saw a non-empty queue at line 60 is about to take
\* the lock
C12_Witness ==
    /\ main = "start"
    /\ pop_log # <<>>
    /\ Quiescent
    /\ lock = 0
    /\ \E w \in Workers : pc[w] = "lock_pop"

\* what a step added at the end of the queue
Appended == SubSeq(remaining_api_clients', Len(remaining_api_clients) + 1,
                   Len(remaining_api_clients'))

\* a merge only appends, and only hosts that are neither visited nor queued,
\* each once
MergeEnqueuesFresh ==
    [][\A w \in Workers :
          (pc[w] = "merge" /\ pc'[w] = "decrement")
             => /\ Len(remaining_api_clients') >= Len(remaining_api_clients)
                /\ SubSeq(remaining_api_clients', 1, Len(remaining_api_clients))
                      = remaining_api_clients
                /\ \A i \in 1..Len(Appended) :
                      /\ Appended[i] \in Hosts
                      /\ Appended[i] \notin visited_hosts
                      /\ Appended[i] \notin SeqToSet(remaining_api_clients)
                      /\ Count(Appended, Appended[i]) = 1]_vars

\* C13 as stated: from seeding on, no host is twice in the queue and no host is
\* both queued and visited; a merge enqueues only hosts that are neither
\* visited nor queued.
C13_QueueVisitedUnique ==
    /\ [](\A h \in Hosts :
             /\ Count(remaining_api_clients, h) <= 1
             /\ ~(h \in SeqToSet(remaining_api_clients) /\ h \in visited_hosts))
    /\ MergeEnqueuesFresh

\* C13 amended: the same for every host the catalog lists at most once; a host
\* the catalog lists k > 1 times is at most k times in the queue.
C13_QueueVisitedUniquePerCatalog ==
    /\ [](\A h \in Hosts :
             IF Count(net.seeds, h) <= 1
             THEN /\ Count(remaining_api_clients, h) <= 1
                  /\ ~(h \in SeqToSet(remaining_api_clients) /\ h \in visited_hosts)
             ELSE Count(remaining_api_clients, h) <= Count(net.seeds, h))
    /\ MergeEnqueuesFresh

\* the catalog lists h1 twice: h1 is visited and still queued, and the merge of
\* h1 appended h3 once although its peer list names it twice
C13_Witness ==
    /\ Count(net.seeds, "h1") = 2
    /\ "h1" \in visited_hosts
    /\ remaining_api_clients = <<"h1", "h2", "h3">>
    /\ \E w \in Workers : pc[w] = "decrement" /\ api_client[w] = "h1"

\* the threads that were handed a host by _pop_next_api_client and have not
\* finished their merge (a thread that died in its probe never will)
Holding == {w \in Workers : pc[w] \in {"probe", "lock_merge", "merge", "decrement", "crashed"}}

\* C14: whenever the lock is free the busy count is the number of threads that
\* hold a host handed out by pop-next and not yet merged, and the count is
\* between 0 and thread_count in every state.
C14_BusyCount ==
    /\ lock = 0 => busy_thread_count = Cardinality(Holding)
    /\ 0 <= busy_thread_count
    /\ busy_thread_count <= net.threadCount

\* the lock is free and two threads probe, one of them after a merge of the other
C14_Witness ==
    /\ lock = 0
    /\ busy_thread_count = 2
    /\ merge_log # <<>>
    /\ \A w \in 1..2 : pc[w] = "probe"

\* the fetch that fails for host h after its identity was resolved, given that
\* every strong client fails the account lookups or none does; "none" if all
\* fetches succeed.  The order is that of lines 96-104.
FailingFetch(n, h) ==
    IF n.beh[h] = "peers" THEN "peers"
    ELSE IF SeqToSet(n.strong) \subseteq n.down THEN "balance"
    ELSE IF n.beh[h] = "height" THEN "height"
    ELSE IF n.beh[h] = "final" /\ ~n.isNem THEN "final"
    ELSE "none"

\* the record as it stands when that fetch fails
RecordBefore(n, h, fetch) ==
    CASE fetch \in {"peers", "balance"} -> Node(h, 0, 0, 0)
      [] fetch = "height" -> Node(h, BalanceOf(n, h), 0, 0)
      [] fetch = "final" -> Node(h, BalanceOf(n, h), n.height[h], 0)

\* C15: when the identity of a host was resolved and a later fetch fails (peer
\* list, balance, chain height or finalization), the merge stores the record
\* with the extraData values assigned before the failing fetch and appends no
\* host to the queue, also when the peer list had been fetched.
C15_SoftFailure ==
    [][\A w \in Workers :
          (/\ pc[w] = "merge" /\ pc'[w] = "decrement"
           /\ api_client[w] \notin hard_failed
           /\ Deterministic(net)
           /\ FailingFetch(net, api_client[w]) # "none")
             => /\ net.key[api_client[w]] \in DOMAIN public_key_to_node_info_map'
                /\ public_key_to_node_info_map'[net.key[api_client[w]]]
                      = RecordBefore(net, api_client[w], FailingFetch(net, api_client[w]))
                /\ remaining_api_clients' = remaining_api_clients]_vars

\* the chain height of h1 could not be fetched after its peer list [h3, h2] and
\* its balance were: the record keeps the balance, and nothing was enqueued
C15_Witness ==
    /\ main = "returned"
    /\ net.beh["h1"] = "height"
    /\ net.peers["h1"] = <<"h3", NoClient, "h2", "h3">>
    /\ visited_hosts = {"h1"}
    /\ DOMAIN public_key_to_node_info_map = {"k1"}
    /\ public_key_to_node_info_map["k1"] = Node("h1", 5, 0, 0)

\* the same for a failing finalization fetch: balance and height are kept
C15_WitnessFinalization ==
    /\ main = "returned"
    /\ net.beh["h1"] = "final"
    /\ visited_hosts = {"h1"}
    /\ public_key_to_node_info_map["k1"] = Node("h1", 5, 9, 0)

\* the same for a failing balance lookup: every strong client is down
C15_WitnessBalance ==
    /\ main = "returned"
    /\ net.down = Hosts /\ ~net.isNem
    /\ net.peers["h1"] = <<"h3", NoClient, "h2", "h3">>
    /\ visited_hosts = {"h1"}
    /\ public_key_to_node_info_map["k1"] = Node("h1", 0, 0, 0)

\* the elements the running call has removed from the head of the queue, given
\* the queue at its entry and the queue now
Removed(entry, now) == SubSeq(entry, 1, Len(entry) - Len(now))

\* the queue now is what the entry queue keeps behind the removed elements
IsRest(entry, now) ==
    /\ Len(now) <= Len(entry)
    /\ now = SubSeq(entry, Len(entry) - Len(now) + 1, Len(entry))

\* C16: a call of _pop_next_api_client removes elements from the head of the
\* queue only.  When it returns a client, the client is the last element
\* removed, its host was not visited at entry and is visited at return, the
\* visited set gained nothing else, the busy count grew by exactly 1 and every
\* element removed ahead of it was visited at entry.  When it returns None the
\* queue is empty, every element it held at entry was visited, and the
\* visited set and the busy count are as at entry.
C16_PopNext ==
    [][\A w \in Workers :
         /\ (pc[w] = "pop_mark" /\ pc'[w] = "probe") =>
               LET gone == Removed(pop_entry.queue, remaining_api_clients')
               IN /\ IsRest(pop_entry.queue, remaining_api_clients')
                  /\ gone # <<>>
                  /\ gone[Len(gone)] = api_client'[w]
                  /\ \A i \in 1..(Len(gone) - 1) : gone[i] \in pop_entry.visited
                  /\ api_client'[w] \notin pop_entry.visited
                  /\ visited_hosts' = pop_entry.visited \cup {api_client'[w]}
                  /\ busy_thread_count' = pop_entry.busy + 1
         /\ (pc[w] = "pop" /\ pc'[w] = "sleep_locked") =>
               /\ remaining_api_clients' = <<>>
               /\ SeqToSet(pop_entry.queue) \subseteq pop_entry.visited
               /\ visited_hosts' = pop_entry.visited
               /\ busy_thread_count' = pop_entry.busy
               /\ api_client'[w] = NoClient]_vars

\* the catalog [h1, h1, h2]: while thread 1 probes h1, the call of thread 2 has
\* discarded the second h1 and returned h2
C16_Witness ==
    /\ net.seeds = <<"h1", "h1", "h2">>
    /\ pc[1] = "probe" /\ api_client[1] = "h1"
    /\ pc[2] = "probe" /\ api_client[2] = "h2"
    /\ pop_log = <<"h1", "h2">>
    /\ remaining_api_clients = <<>>
    /\ visited_hosts = {"h1", "h2"}
    /\ busy_thread_count = 2

\* a call that found only a visited host has returned None
C16_WitnessNone ==
    \E w \in Workers :
        /\ pc[w] = "sleep_locked"
        /\ pop_entry.queue = <<"h2">>
        /\ remaining_api_clients = <<>>
        /\ visited_hosts = pop_entry.visited
        /\ busy_thread_count = pop_entry.busy


\* the thread is inside the with block of line 64 (in _pop_next_api_client or
\* the sleep after it) or inside the with block of line 111
InPopNext(w) == pc[w] \in {"pop", "pop_mark", "sleep_locked"}

InMerge(w) == pc[w] \in {"merge", "decrement"}

OneInside ==
    /\ \A w \in Workers : (InPopNext(w) \/ InMerge(w)) <=> lock = w
    /\ Cardinality({w \in Workers : InPopNext(w) \/ InMerge(w)}) <= 1

\* C17: once the threads are started, at most one thread is inside pop-next
\* or merge and it holds the lock; every step that changes visited_hosts,
\* remaining_api_clients, public_key_to_node_info_map or busy_thread_count is
\* a step of the thread that holds the lock; and the lock passes from one
\* thread to another only through a release, so that the mutations of one
\* pop-next or merge are not interleaved with another thread's.
C17_MutualExclusion ==
    [][/\ OneInside /\ OneInside'
       /\ (main # "seed" /\ shared' # shared) =>
              /\ lock # 0
              /\ \A v \in Workers \ {lock} : pc'[v] = pc[v]
       /\ (lock # 0 /\ lock' # lock) =>
              /\ lock' = 0
              /\ \A v \in Workers \ {lock} : pc'[v] = pc[v]]_vars

\* thread 1 has merged inside the lock and grown the queue while thread 2,
\* done with its probe, waits for the lock
C17_Witness ==
    /\ lock = 1 /\ pc[1] = "decrement"
    /\ pc[2] = "lock_merge"
    /\ remaining_api_clients # <<>>
    /\ merge_log # <<>>
    /\ busy_thread_count = 2


\* C18: no thread holds the lock while it probes a host (lines 73-109) or
\* while it is in one of the waits of the loop (line 61, and line 67 after
\* _pop_next_api_client returned None).
C18_LockOnlyForPopAndMerge ==
    \A w \in Workers : pc[w] \in {"probe", "sleep", "sleep_locked"} => lock # w

\* a thread sleeps at line 67 with the lock while another thread, done with its
\* probe, waits at line 111 to merge
C18_BlockedBySleeper ==
    \E w, v \in Workers :
        /\ pc[w] = "sleep_locked" /\ lock = w
        /\ pc[v] = "lock_merge"


\* C19: visited_hosts is empty when seeding is done, it never loses a host, and
\* it changes only in the step of _pop_next_api_client that returns a host to
\* a thread, by exactly that host; so it is at all times the set of the hosts
\* handed out, and neither seeding nor a merge changes it.
C19_VisitedIsDequeued ==
    [][/\ visited_hosts = SeqToSet(pop_log)
       /\ visited_hosts' = SeqToSet(pop_log')
       /\ visited_hosts \subseteq visited_hosts'
       /\ (main = "seed" /\ main' = "start") => visited_hosts' = {}
       /\ \A w \in Workers : (pc[w] = "merge" /\ pc'[w] # "merge")
                                  => visited_hosts' = visited_hosts
       /\ visited_hosts' # visited_hosts =>
              \E w \in Workers :
                 /\ pc[w] = "pop_mark" /\ pc'[w] = "probe"
                 /\ visited_hosts' = visited_hosts \cup {api_client'[w]}
                 /\ pop_log' = Append(pop_log, api_client'[w])]_vars

\* h1 was handed out, probed and merged: its peers h3 and h2 are queued and
\* not visited, and h1 is the only visited host
C19_Witness ==
    /\ pc[1] = "decrement"
    /\ api_client[1] = "h1"
    /\ remaining_api_clients = <<"h3", "h2">>
    /\ visited_hosts = {"h1"}
    /\ pop_log = <<"h1">>


\* a is b with some elements left out, the order kept
RECURSIVE IsSubseq(_, _)
IsSubseq(a, b) ==
    IF a = <<>> THEN TRUE
    ELSE IF b = <<>> THEN FALSE
    ELSE IF Head(a) = Head(b) THEN IsSubseq(Tail(a), Tail(b))
    ELSE IsSubseq(a, Tail(b))

\* q without the repetitions of an element that occurs earlier in q
FirstOccurrences(q) ==
    LET first == {i \in 1..Len(q) : \A j \in 1..(i - 1) : q[j] # q[i]}
    IN [k \in 1..Cardinality(first) |->
           q[CHOOSE i \in first : Cardinality({j \in first : j <= i}) = k]]

\* the host a thread took at line 124 and has not yet marked at line 133
PendingPop ==
    IF \E w \in Workers : pc[w] = "pop_mark"
    THEN <<api_client[CHOOSE w \in Workers : pc[w] = "pop_mark"]>>
    ELSE <<>>

\* the queue is the end of the sequence of all hosts enqueued, and the hosts
\* handed out are the ones in front of it, in the order they were enqueued.
\* It holds in the initial state, where the three sequences are empty, and a
\* thread enters or leaves "pop_mark" only with a change of the queue or of
\* pop_log, so it needs to be looked at only after a change of the three.
DequeuedInOrder ==
    /\ IsRest(enq_log, remaining_api_clients)
    /\ FirstOccurrences(Removed(enq_log, remaining_api_clients)) = pop_log \o PendingPop

\* C20: _pop_next_api_client removes the head of the queue and nothing else,
\* and a merge leaves the queued elements in place and puts behind them hosts
\* of its peer list in the order of that list; so the hosts are handed out in
\* the order they were enqueued: those of one merge in the order of its peer
\* list and behind everything that was queued when the merge ran.
C20_Fifo ==
    [][/\ (<<enq_log, remaining_api_clients, pop_log>>'
              # <<enq_log, remaining_api_clients, pop_log>>) => DequeuedInOrder'
       /\ \A w \in Workers :
             /\ (pc[w] = "pop" /\ remaining_api_clients' # remaining_api_clients) =>
                    /\ remaining_api_clients' = Tail(remaining_api_clients)
                    /\ pc'[w] = "pop_mark" => api_client'[w] = Head(remaining_api_clients)
             /\ (pc[w] = "merge" /\ pc'[w] = "decrement") =>
                    /\ Len(remaining_api_clients') >= Len(remaining_api_clients)
                    /\ SubSeq(remaining_api_clients', 1, Len(remaining_api_clients))
                          = remaining_api_clients
                    /\ IsSubseq(Appended, json_peers[w])
       /\ (main # "seed" /\ remaining_api_clients' # remaining_api_clients) =>
              \E w \in Workers : lock = w /\ pc[w] \in {"pop", "merge"}]_vars

\* h1 reported the peers [h3, none, h2, h3]: h3 and h2 were handed out in that
\* order
C20_Witness ==
    /\ main = "returned"
    /\ net.peers["h1"] = <<"h3", NoClient, "h2", "h3">>
    /\ enq_log = <<"h1", "h3", "h2">>
    /\ pop_log = <<"h1", "h3", "h2">>

\* h1 reported [h2, h3] while h2 was queued: h3 was handed out behind h2
C20_WitnessBehindQueued ==
    /\ main = "returned"
    /\ net.seeds = <<"h1", "h2">>
    /\ merge_log # <<>> /\ merge_log[1][2] = "h1"
    /\ enq_log = <<"h1", "h2", "h3">>
    /\ pop_log = <<"h1", "h2", "h3">>

====
